---- MODULE Spec2Model ----
(***************************************************************************)
(* Model of the wordall guessing-game engine (src/src/wordall/game.py):    *)
(* the guess scorer Guess._get_guess_letter_states, the alphabet tracker    *)
(* WordleGame._update_alphabet_states and the WordleGame.guess_word state  *)
(* machine.  A word is a sequence of one-character strings.                *)
(***************************************************************************)
EXTENDS Integers, Sequences, FiniteSets, TLC

(***************************************************************************)
(* Bounds of the model.                                                    *)
(***************************************************************************)
\* longest word handed to a game: dictionary line, target or candidate guess
MaxLen == 2
\* largest number of words in a dictionary file
MaxDictSize == 3
\* longest guess history explored (caps games without an effective limit)
MaxGuesses == 2
\* number of symbols that the arguments of a scoring run are drawn from
NumScoreSymbols == 2
\* longest argument of a scoring run
MaxScoreLen == 3

(***************************************************************************)
(* Enumerations (game.py:14-30) and the alphabet (game.py:42).             *)
(***************************************************************************)
GameState == {"GUESSING", "SUCCEEDED", "FAILED"}

GuessLetterState == {"CORRECT", "ELSEWHERE", "INCORRECT"}

AlphabetLetterState == {"FOUND", "FOUND_ELSEWHERE", "UNUSED", "NOT_GUESSED"}

ascii_uppercase ==
    << "A", "B", "C", "D", "E", "F", "G", "H", "I", "J", "K", "L", "M",
       "N", "O", "P", "Q", "R", "S", "T", "U", "V", "W", "X", "Y", "Z" >>

\* Game.ALPHABET is string.ascii_uppercase; the games of the model are played
\* over its first two symbols
ALPHABET == {"A", "B"}

\* the symbols of the arguments of a scoring run
ScoreSymbols == {ascii_uppercase[i] : i \in 1..NumScoreSymbols}

\* Python's None, where an argument is "int | None": a value that equals no
\* length and no count
None == -1

\* all words over the symbol set S of length 0..n
WordsOver(S, n) == UNION {[1..k -> S] : k \in 0..n}

(***************************************************************************)
(* Guess._get_guess_letter_states (game.py:212-235).                       *)
(* The scoring state is the pair of locals [states, counter]; counter is   *)
(* a collections.Counter, whose keys are the symbols of the target.        *)
(***************************************************************************)
\* collections.Counter(word)
Counter(word) ==
    [c \in {word[i] : i \in DOMAIN word} |->
        Cardinality({i \in DOMAIN word : word[i] = c})]

\* the locals after lines 216-217
ScoreStart(guess_word, target_word) ==
    [states  |-> [i \in 1..Len(guess_word) |-> <<guess_word[i], "INCORRECT">>],
     counter |-> Counter(target_word)]

\* MarkCorrect with line 223 left out: an exact match is not taken from the
\* counter
MarkCorrectNoDecrement(loc, i, guess_word, target_word) ==
    LET c == guess_word[i] IN
    IF Len(target_word) >= i /\ target_word[i] = c
    THEN [loc EXCEPT !.states[i] = <<c, "CORRECT">>]
    ELSE loc

\* MarkCorrect with the length test of line 221 off by one: the last position
\* of the target is never compared
MarkCorrectOffByOne(loc, i, guess_word, target_word) ==
    LET c == guess_word[i] IN
    IF Len(target_word) > i /\ target_word[i] = c
    THEN [states  |-> [loc.states EXCEPT ![i] = <<c, "CORRECT">>],
          counter |-> [loc.counter EXCEPT ![c] = @ - 1]]
    ELSE loc

\* one iteration of the first loop (lines 220-223), at 1-based position i
MarkCorrect(loc, i, guess_word, target_word) ==
    LET c == guess_word[i] IN
    IF Len(target_word) >= i /\ target_word[i] = c
    THEN [states  |-> [loc.states EXCEPT ![i] = <<c, "CORRECT">>],
          counter |-> [loc.counter EXCEPT ![c] = @ - 1]]
    ELSE loc

\* MarkElsewhere with line 233 left out: an elsewhere match is not taken from
\* the counter
MarkElsewhereNoDecrement(loc, i, guess_word) ==
    LET c == guess_word[i] IN
    IF loc.states[i][2] = "CORRECT"
    THEN loc
    ELSE IF c \in DOMAIN loc.counter /\ loc.counter[c] > 0
         THEN [loc EXCEPT !.states[i] = <<c, "ELSEWHERE">>]
         ELSE loc

\* MarkElsewhere with the test of line 231 cut to "c in target_letter_counter"
MarkElsewhereAnyCount(loc, i, guess_word) ==
    LET c == guess_word[i] IN
    IF loc.states[i][2] = "CORRECT"
    THEN loc
    ELSE IF c \in DOMAIN loc.counter
         THEN [states  |-> [loc.states EXCEPT ![i] = <<c, "ELSEWHERE">>],
               counter |-> [loc.counter EXCEPT ![c] = @ - 1]]
         ELSE loc

\* MarkElsewhere with the second loop running from the last position to the
\* first: the i-th iteration is at position len(guess_word) + 1 - i
MarkElsewhereFromTheEnd(loc, i, guess_word) ==
    LET at == Len(guess_word) + 1 - i
        c  == guess_word[at]
    IN  IF loc.states[at][2] = "CORRECT"
        THEN loc
        ELSE IF c \in DOMAIN loc.counter /\ loc.counter[c] > 0
             THEN [states  |-> [loc.states EXCEPT ![at] = <<c, "ELSEWHERE">>],
                   counter |-> [loc.counter EXCEPT ![c] = @ - 1]]
             ELSE loc

\* one iteration of the second loop (lines 226-233), at 1-based position i
MarkElsewhere(loc, i, guess_word) ==
    LET c == guess_word[i] IN
    IF loc.states[i][2] = "CORRECT"
    THEN loc
    ELSE IF c \in DOMAIN loc.counter /\ loc.counter[c] > 0
         THEN [states  |-> [loc.states EXCEPT ![i] = <<c, "ELSEWHERE">>],
               counter |-> [loc.counter EXCEPT ![c] = @ - 1]]
         ELSE loc

RECURSIVE CorrectLoop(_, _, _, _)
\* the first loop from position i on
CorrectLoop(loc, i, guess_word, target_word) ==
    IF i > Len(guess_word)
    THEN loc
    ELSE CorrectLoop(MarkCorrect(loc, i, guess_word, target_word),
                     i + 1, guess_word, target_word)

RECURSIVE ElsewhereLoop(_, _, _)
\* the second loop from position i on
ElsewhereLoop(loc, i, guess_word) ==
    IF i > Len(guess_word)
    THEN loc
    ELSE ElsewhereLoop(MarkElsewhere(loc, i, guess_word), i + 1, guess_word)

\* the whole function: the returned guess_letter_states
_get_guess_letter_states(guess_word, target_word) ==
    ElsewhereLoop(
        CorrectLoop(ScoreStart(guess_word, target_word), 1,
                    guess_word, target_word),
        1, guess_word).states

\* Guess with the two words stored in each other's field
GuessSwapped(guess_word, target_word) ==
    [target_word         |-> guess_word,
     guess_word          |-> target_word,
     guess_letter_states |-> _get_guess_letter_states(guess_word, target_word)]

\* Guess.__init__ (game.py:190-195)
Guess(guess_word, target_word) ==
    [target_word         |-> target_word,
     guess_word          |-> guess_word,
     guess_letter_states |-> _get_guess_letter_states(guess_word, target_word)]

(***************************************************************************)
(* State.                                                                  *)
(***************************************************************************)
VARIABLES
    \* WordleGame fields (game.py:84-97)
    guess_limit, word_dictionary, target, guesses, alphabet_states, game_state,
    \* outcome of the last guess_word call: its return value or the exception
    result,
    \* a run of the scorer on its own: arguments, locals and position
    sc_guess, sc_target, sc_loc, sc_pc, sc_i,
    \* the widgets of WordallApp (tui/app.py, run.py): whether the app runs or
    \* which exception ended it, the message label, the value and the disabled
    \* flag of the GuessInput, the number of guess rows and of target displays
    app_state, label, input_value, input_disabled, guess_rows, target_displays,
    \* a call of a function on its own: its arguments and what came of it
    call_in, call_out

gameVars == <<guess_limit, word_dictionary, target, guesses, alphabet_states,
              game_state, result>>

scoreVars == <<sc_guess, sc_target, sc_loc, sc_pc, sc_i>>

tuiVars == <<app_state, label, input_value, input_disabled, guess_rows,
             target_displays>>

callVars == <<call_in, call_out>>

vars == <<gameVars, scoreVars, tuiVars, callVars>>

(***************************************************************************)
(* WordleGame (game.py:71-186).                                            *)
(***************************************************************************)
\* Game.is_word_in_alphabet (game.py:58-61)
is_word_in_alphabet(word) == \A i \in DOMAIN word : word[i] \in ALPHABET

\* WordleGame._load_word_dictionary (game.py:99-125); all_words is the set of
\* the stripped, non-empty lines of the file, word_length is None or a length.
\* The result is the exception raised ("" for none) and the set returned.
_load_word_dictionary(all_words, word_length) ==
    LET dictionary ==
            {word \in all_words : word_length = None \/ Len(word) = word_length}
        invalid == {w \in dictionary : ~is_word_in_alphabet(w)}
    IN  IF dictionary = {}
        THEN [raises |-> "InvalidDictionaryFileError", returns |-> {}]
        ELSE IF invalid # {}
        THEN [raises |-> "InvalidDictionaryFileError", returns |-> {}]
        ELSE [raises |-> "", returns |-> dictionary]

\* the dictionary files considered: at most MaxDictSize distinct words of
\* length 1..MaxLen
NonEmptyWords == WordsOver(ALPHABET, MaxLen) \ {<<>>}

RECURSIVE SubsetsUpTo(_, _)
\* the subsets of S with at most k elements
SubsetsUpTo(S, k) ==
    IF k = 0 THEN {{}}
    ELSE LET smaller == SubsetsUpTo(S, k - 1)
         IN  smaller \cup {T \cup {x} : T \in smaller, x \in S}

DictionaryFiles == SubsetsUpTo(NonEmptyWords, MaxDictSize)

\* the values of the constructor's guess_limit argument
GuessLimits == {None} \cup (0..MaxGuesses)

\* the values of the constructor's target_word_length argument
TargetWordLengths == {None} \cup (0..MaxLen)

\* the words handed to guess_word
Candidates == WordsOver(ALPHABET, MaxLen)

\* is_valid_word without the length test: membership alone
is_valid_word_AnyLength(word) == word \in word_dictionary

\* WordleGame.is_valid_word (game.py:185-186)
is_valid_word(word) == word \in word_dictionary /\ Len(word) = Len(target)

\* UpdateLetter with the test of line 169 left out: ELSEWHERE overwrites FOUND
UpdateLetterElsewhereOverFound(alpha, c, state) ==
    IF state = "CORRECT"
    THEN [alpha |-> [alpha EXCEPT ![c] = "FOUND"], raised |-> FALSE]
    ELSE IF state = "ELSEWHERE"
    THEN IF alpha[c] # "UNUSED"
         THEN [alpha |-> [alpha EXCEPT ![c] = "FOUND_ELSEWHERE"],
               raised |-> FALSE]
         ELSE [alpha |-> alpha, raised |-> TRUE]
    ELSE IF alpha[c] = "NOT_GUESSED"
    THEN [alpha |-> [alpha EXCEPT ![c] = "UNUSED"], raised |-> FALSE]
    ELSE [alpha |-> alpha, raised |-> FALSE]

\* UpdateLetter with the test of line 178 left out: INCORRECT always writes
\* UNUSED
UpdateLetterIncorrectOverwrites(alpha, c, state) ==
    IF state = "CORRECT"
    THEN [alpha |-> [alpha EXCEPT ![c] = "FOUND"], raised |-> FALSE]
    ELSE IF state = "ELSEWHERE"
    THEN IF alpha[c] # "FOUND"
         THEN IF alpha[c] # "UNUSED"
              THEN [alpha |-> [alpha EXCEPT ![c] = "FOUND_ELSEWHERE"],
                    raised |-> FALSE]
              ELSE [alpha |-> alpha, raised |-> TRUE]
         ELSE [alpha |-> alpha, raised |-> FALSE]
    ELSE [alpha |-> [alpha EXCEPT ![c] = "UNUSED"], raised |-> FALSE]

\* one iteration of the loop of _update_alphabet_states (game.py:163-183) on
\* the pair (c, state); alpha is self.alphabet_states, raised tells that an
\* assert statement failed
UpdateLetter(alpha, c, state) ==
    IF state = "CORRECT"
    THEN [alpha |-> [alpha EXCEPT ![c] = "FOUND"], raised |-> FALSE]
    ELSE IF state = "ELSEWHERE"
    THEN IF alpha[c] # "FOUND"
         THEN IF alpha[c] # "UNUSED"
              THEN [alpha |-> [alpha EXCEPT ![c] = "FOUND_ELSEWHERE"],
                    raised |-> FALSE]
              ELSE [alpha |-> alpha, raised |-> TRUE]
         ELSE [alpha |-> alpha, raised |-> FALSE]
    ELSE IF state # "INCORRECT"
    THEN [alpha |-> alpha, raised |-> TRUE]
    ELSE IF alpha[c] = "NOT_GUESSED"
    THEN [alpha |-> [alpha EXCEPT ![c] = "UNUSED"], raised |-> FALSE]
    ELSE [alpha |-> alpha, raised |-> FALSE]

RECURSIVE UpdateLoop(_, _, _)
\* the loop of _update_alphabet_states from position i on; a failed assert
\* leaves the loop with the states written so far
UpdateLoop(alpha, guess_letter_states, i) ==
    IF i > Len(guess_letter_states)
    THEN [alpha |-> alpha, raised |-> FALSE]
    ELSE LET one == UpdateLetter(alpha, guess_letter_states[i][1],
                                 guess_letter_states[i][2])
         IN  IF one.raised THEN one
             ELSE UpdateLoop(one.alpha, guess_letter_states, i + 1)

\* _update_alphabet_states that also marks as UNUSED every symbol still
\* NOT_GUESSED after the loop, whether or not the guess holds it
_update_alphabet_states_RestUnused(alpha, guess) ==
    LET looped == UpdateLoop(alpha, guess.guess_letter_states, 1)
    IN  [alpha  |-> [symbol_k \in DOMAIN looped.alpha |->
                        IF looped.alpha[symbol_k] = "NOT_GUESSED"
                        THEN "UNUSED"
                        ELSE looped.alpha[symbol_k]],
         raised |-> looped.raised]

\* WordleGame._update_alphabet_states (game.py:154-183)
_update_alphabet_states(alpha, guess) ==
    UpdateLoop(alpha, guess.guess_letter_states, 1)

\* Termination with the limit compared before the guess is counted
TerminationOffByOne(guess_word_, history) ==
    IF guess_word_ = target
    THEN [game_state |-> "SUCCEEDED", returns |-> "True"]
    ELSE IF Len(history) - 1 = guess_limit
    THEN [game_state |-> "FAILED", returns |-> "True"]
    ELSE [game_state |-> game_state, returns |-> "False"]

\* Termination with its two tests in the other order: the limit first
TerminationLimitFirst(guess_word_, history) ==
    IF Len(history) = guess_limit
    THEN [game_state |-> "FAILED", returns |-> "True"]
    ELSE IF guess_word_ = target
    THEN [game_state |-> "SUCCEEDED", returns |-> "True"]
    ELSE [game_state |-> game_state, returns |-> "False"]

\* Termination with the limit test of line 148 written "at least": a game
\* without a limit (None, below every length) fails at once
TerminationAtLeast(guess_word_, history) ==
    IF guess_word_ = target
    THEN [game_state |-> "SUCCEEDED", returns |-> "True"]
    ELSE IF Len(history) >= guess_limit
    THEN [game_state |-> "FAILED", returns |-> "True"]
    ELSE [game_state |-> game_state, returns |-> "False"]

\* Termination with line 150 returning False: the failing guess reports an
\* unfinished game
TerminationFailedReturnsFalse(guess_word_, history) ==
    IF guess_word_ = target
    THEN [game_state |-> "SUCCEEDED", returns |-> "True"]
    ELSE IF Len(history) = guess_limit
    THEN [game_state |-> "FAILED", returns |-> "False"]
    ELSE [game_state |-> game_state, returns |-> "False"]

\* the termination check of guess_word (game.py:145-152): the new game state
\* and the value returned
Termination(guess_word_, history) ==
    IF guess_word_ = target
    THEN [game_state |-> "SUCCEEDED", returns |-> "True"]
    ELSE IF Len(history) = guess_limit
    THEN [game_state |-> "FAILED", returns |-> "True"]
    ELSE [game_state |-> game_state, returns |-> "False"]

\* AlreadyFinished testing for one of the two final states only
AlreadyFinishedOnlyFailed == game_state = "FAILED"

\* AlreadyFinished testing for the other final state only
AlreadyFinishedOnlySucceeded == game_state = "SUCCEEDED"

\* the test of guess_word's first statement (game.py:135)
AlreadyFinished == game_state # "GUESSING"

\* WordleGame.guess_word (game.py:134-152), one call with argument w
guess_word(w) ==
    /\ UNCHANGED <<guess_limit, word_dictionary, target, scoreVars>>
    /\ IF AlreadyFinished
       THEN /\ result' = "GameAlreadyFinishedError"
            /\ UNCHANGED <<guesses, alphabet_states, game_state>>
       ELSE IF ~is_valid_word(w)
       THEN /\ result' = "InvalidGuessWordError"
            /\ UNCHANGED <<guesses, alphabet_states, game_state>>
       ELSE LET guess == Guess(w, target)
                upd   == _update_alphabet_states(alphabet_states, guess)
                term  == Termination(w, Append(guesses, guess))
            IN  /\ Len(guesses) < MaxGuesses
                /\ guesses' = Append(guesses, guess)
                /\ alphabet_states' = upd.alpha
                /\ IF upd.raised
                   THEN /\ result' = "AssertionError"
                        /\ UNCHANGED game_state
                   ELSE /\ game_state' = term.game_state
                        /\ result' = term.returns

\* the widget variables while no app is modelled
TuiIdle ==
    /\ app_state = "none"
    /\ label = <<>>
    /\ input_value = <<>>
    /\ input_disabled = FALSE
    /\ guess_rows = 0
    /\ target_displays = 0

\* the call variables while no call is modelled
CallIdle ==
    /\ call_in = [function |-> "none"]
    /\ call_out = [done |-> FALSE]

\* the scoring variables while no scoring run is modelled
ScoreIdle ==
    /\ sc_guess = <<>>
    /\ sc_target = <<>>
    /\ sc_loc = ScoreStart(<<>>, <<>>)
    /\ sc_pc = "idle"
    /\ sc_i = 0

\* WordleGame.__init__ (game.py:76-97): the state after construction
Init ==
    /\ \E all_words \in DictionaryFiles, target_word_length \in TargetWordLengths :
          LET loaded == _load_word_dictionary(all_words, target_word_length)
          IN  /\ loaded.raises = ""
              /\ word_dictionary = loaded.returns
    /\ guess_limit \in GuessLimits
    /\ target \in word_dictionary
    /\ guesses = <<>>
    /\ alphabet_states = [c \in ALPHABET |-> "NOT_GUESSED"]
    /\ game_state = "GUESSING"
    /\ result = "none"
    /\ ScoreIdle
    /\ TuiIdle
    /\ CallIdle

Next == \E w \in Candidates : guess_word(w) /\ UNCHANGED <<tuiVars, callVars>>

Spec == Init /\ [][Next]_vars

(***************************************************************************)
(* A run of Guess._get_guess_letter_states on its own (game.py:212-235),   *)
(* one loop iteration per step, on every pair of words within the bounds.  *)
(***************************************************************************)
\* the arguments of a scoring run
ScoreWords == WordsOver(ScoreSymbols, MaxScoreLen)

\* the game variables while no game is modelled
GameIdle ==
    /\ guess_limit = None
    /\ word_dictionary = {}
    /\ target = <<>>
    /\ guesses = <<>>
    /\ alphabet_states = [c \in ALPHABET |-> "NOT_GUESSED"]
    /\ game_state = "GUESSING"
    /\ result = "none"

\* the call, after lines 216-217
InitScore ==
    /\ sc_guess \in ScoreWords
    /\ sc_target \in ScoreWords
    /\ sc_loc = ScoreStart(sc_guess, sc_target)
    /\ sc_pc = "correct"
    /\ sc_i = 1
    /\ GameIdle
    /\ TuiIdle
    /\ CallIdle

\* one iteration of the first loop (lines 220-223)
MarkCorrectStep ==
    /\ sc_pc = "correct"
    /\ sc_i <= Len(sc_guess)
    /\ sc_loc' = MarkCorrect(sc_loc, sc_i, sc_guess, sc_target)
    /\ sc_i' = sc_i + 1
    /\ UNCHANGED <<sc_guess, sc_target, sc_pc, gameVars, tuiVars, callVars>>

\* the first loop ends and the second begins (line 226)
StartElsewhere ==
    /\ sc_pc = "correct"
    /\ sc_i > Len(sc_guess)
    /\ sc_pc' = "elsewhere"
    /\ sc_i' = 1
    /\ UNCHANGED <<sc_guess, sc_target, sc_loc, gameVars, tuiVars,
                   callVars>>

\* one iteration of the second loop (lines 226-233)
MarkElsewhereStep ==
    /\ sc_pc = "elsewhere"
    /\ sc_i <= Len(sc_guess)
    /\ sc_loc' = MarkElsewhere(sc_loc, sc_i, sc_guess)
    /\ sc_i' = sc_i + 1
    /\ UNCHANGED <<sc_guess, sc_target, sc_pc, gameVars, tuiVars, callVars>>

\* the return (line 235)
ReturnStates ==
    /\ sc_pc = "elsewhere"
    /\ sc_i > Len(sc_guess)
    /\ sc_pc' = "done"
    /\ UNCHANGED <<sc_guess, sc_target, sc_loc, sc_i, gameVars, tuiVars,
                   callVars>>

NextScore ==
    \/ MarkCorrectStep
    \/ StartElsewhere
    \/ MarkElsewhereStep
    \/ ReturnStates

SpecScore == InitScore /\ [][NextScore]_vars

(***************************************************************************)
(* Properties of the scorer, checked under SpecScore.                      *)
(***************************************************************************)
\* number of positions of word that hold c
Occurrences(c, word) == Cardinality({i \in DOMAIN word : word[i] = c})

\* the positions of guess that hold the symbol the target holds there
ExactMatches(guess, tgt) ==
    {i \in DOMAIN guess : i <= Len(tgt) /\ guess[i] = tgt[i]}

\* what is left of the symbol at position i of the guess for position i: its
\* count in the target, less its exact matches anywhere in the guess, less
\* the ELSEWHERE marks that states gives it left of i
RemainingFor(i, states, guess, tgt) ==
    Occurrences(guess[i], tgt)
    - Cardinality({j \in ExactMatches(guess, tgt) : guess[j] = guess[i]})
    - Cardinality({j \in 1..(i - 1) :
                      guess[j] = guess[i] /\ states[j][2] = "ELSEWHERE"})

\* states is the scoring of guess against tgt that C1 describes
ScoredByRule(states, guess, tgt) ==
    /\ DOMAIN states = 1..Len(guess)
    /\ \A i \in 1..Len(guess) :
          /\ states[i][1] = guess[i]
          /\ states[i][2] \in GuessLetterState
          /\ states[i][2] = "CORRECT" <=> i \in ExactMatches(guess, tgt)
          /\ i \notin ExactMatches(guess, tgt) =>
                (states[i][2] = "ELSEWHERE"
                    <=> RemainingFor(i, states, guess, tgt) > 0)

\* C1: for every guess and target, of equal length or not, the returned list
\* has one (symbol, outcome) pair per guess position, in guess order, with the
\* guess symbol; a position is CORRECT iff it is within the target and holds
\* the target's symbol; any other position is ELSEWHERE iff its symbol has a
\* count left after all exact matches and the earlier ELSEWHERE marks of that
\* symbol, and INCORRECT otherwise.
C1_ScoringFollowsTwoPassRule ==
    sc_pc = "done" => ScoredByRule(sc_loc.states, sc_guess, sc_target)

\* a finished scoring of words of different lengths that gave all three
\* outcomes
C1_Witness ==
    /\ sc_pc = "done"
    /\ Len(sc_guess) # Len(sc_target)
    /\ {sc_loc.states[i][2] : i \in DOMAIN sc_loc.states} = GuessLetterState

\* the symbols that occur once in the target and twice in the guess
OnceAndTwice(guess, tgt) ==
    {c \in ScoreSymbols : Occurrences(c, tgt) = 1 /\ Occurrences(c, guess) = 2}

\* C9: a symbol that occurs exactly once in the target and exactly twice in
\* the guess has exactly one occurrence scored CORRECT or ELSEWHERE, and the
\* other scored INCORRECT.
C9_DuplicateLetterLaw ==
    sc_pc = "done" =>
        \A c \in OnceAndTwice(sc_guess, sc_target) :
            LET at == {i \in DOMAIN sc_guess : sc_guess[i] = c}
                st == sc_loc.states
            IN  /\ Cardinality({i \in at : st[i][2] \in {"CORRECT", "ELSEWHERE"}}) = 1
                /\ Cardinality({i \in at : st[i][2] = "INCORRECT"}) = 1

\* a finished scoring with such a symbol, whose two occurrences both miss the
\* symbol's place in the target
C9_Witness ==
    /\ sc_pc = "done"
    /\ \E c \in OnceAndTwice(sc_guess, sc_target) :
          \A i \in ExactMatches(sc_guess, sc_target) : sc_guess[i] # c

\* the pairs <<p, q>> of C10: a symbol once in the target and twice in the
\* guess, at p and at q, p before q, q being its place in the target
LateExactMatch(guess, tgt) ==
    {pq \in (DOMAIN guess) \X (DOMAIN guess) :
        /\ pq[1] < pq[2]
        /\ guess[pq[1]] = guess[pq[2]]
        /\ guess[pq[1]] \in OnceAndTwice(guess, tgt)
        /\ pq[2] \in ExactMatches(guess, tgt)}

\* C10, as stated: when the occurrence at the symbol's correct position comes
\* later in the guess than the other occurrence, the earlier occurrence is
\* scored ELSEWHERE and the later one CORRECT.
C10_EarlierIsElsewhere ==
    sc_pc = "done" =>
        \A pq \in LateExactMatch(sc_guess, sc_target) :
            /\ sc_loc.states[pq[1]][2] = "ELSEWHERE"
            /\ sc_loc.states[pq[2]][2] = "CORRECT"

\* C10, amended: in that case the earlier occurrence is scored INCORRECT and
\* the later one CORRECT (the exact match has used up the symbol's one copy).
C10_EarlierIsIncorrect ==
    sc_pc = "done" =>
        \A pq \in LateExactMatch(sc_guess, sc_target) :
            /\ sc_loc.states[pq[1]][2] = "INCORRECT"
            /\ sc_loc.states[pq[2]][2] = "CORRECT"

\* a finished scoring with such a pair of occurrences
C10_Witness ==
    /\ sc_pc = "done"
    /\ LateExactMatch(sc_guess, sc_target) # {}

(***************************************************************************)
(* Properties of the game, checked under Spec.  Every step of Spec is one  *)
(* call of guess_word.                                                     *)
(***************************************************************************)
\* what guess_word may mutate
mutable == <<guesses, alphabet_states, game_state>>

\* the guess words of the history
GuessedWords == {guesses[i].guess_word : i \in DOMAIN guesses}

\* the step accepted a guess: the history grew by one entry
Accepted == Len(guesses') = Len(guesses) + 1

\* the word of the entry the step appended
AcceptedWord == guesses'[Len(guesses')].guess_word

\* C2: once the game state is SUCCEEDED or FAILED, every call of guess_word,
\* whatever the candidate, raises GameAlreadyFinishedError and leaves the
\* guess history, the alphabet states and the game state unchanged.
C2_FinishedGameRejectsEveryGuess ==
    [][(game_state \in {"SUCCEEDED", "FAILED"} =>
          /\ result' = "GameAlreadyFinishedError"
          /\ UNCHANGED mutable)]_vars

\* a finished game, with a history, on which guess_word has been called
C2_Witness ==
    /\ game_state \in {"SUCCEEDED", "FAILED"}
    /\ result = "GameAlreadyFinishedError"
    /\ guesses # <<>>

\* C3: while the game is GUESSING, a call with a candidate that is not in the
\* dictionary or not of the target's length raises InvalidGuessWordError and
\* changes nothing: a call either applies fully (one entry appended, True or
\* False returned), and then its word is in the dictionary and of the target's
\* length, or rejects fully (InvalidGuessWordError, nothing changed).
C3_InvalidGuessChangesNothing ==
    [][(game_state = "GUESSING" =>
          \/ /\ result' \in {"True", "False"}
             /\ Accepted
             /\ AcceptedWord \in word_dictionary
             /\ Len(AcceptedWord) = Len(target)
          \/ /\ result' = "InvalidGuessWordError"
             /\ UNCHANGED mutable)]_vars

\* a game still GUESSING after an accepted guess and then a rejected one
C3_Witness ==
    /\ game_state = "GUESSING"
    /\ result = "InvalidGuessWordError"
    /\ guesses # <<>>

\* C4: with guess limit N and no accepted guess equal to the target, the game
\* becomes FAILED exactly when the Nth guess is accepted and is GUESSING after
\* each accepted guess before it; a rejected call does not count.
C4_FailsExactlyOnNthGuess ==
    /\ [](guess_limit # None =>
            /\ game_state = "FAILED" =>
                  Len(guesses) = guess_limit /\ target \notin GuessedWords
            /\ (Len(guesses) < guess_limit /\ target \notin GuessedWords) =>
                  game_state = "GUESSING")
    /\ [][(guess_limit # None =>
            /\ (Accepted /\ AcceptedWord # target) =>
                  game_state' = IF Len(guesses') = guess_limit
                                THEN "FAILED" ELSE "GUESSING"
            /\ result' = "InvalidGuessWordError" =>
                  UNCHANGED <<guesses, game_state>>)]_vars

\* a game with limit 2 that failed on its second accepted guess
C4_Witness ==
    /\ guess_limit = 2
    /\ game_state = "FAILED"
    /\ Len(guesses) = 2
    /\ result = "True"

\* C5: while the game is GUESSING, an accepted guess equal to the target sets
\* the state to SUCCEEDED in that call and returns True, on any guess number,
\* the Nth under guess limit N included.
C5_WinTakesPrecedence ==
    [][((game_state = "GUESSING" /\ Accepted /\ AcceptedWord = target) =>
          (game_state' = "SUCCEEDED" /\ result' = "True"))]_vars

\* a game won by the guess that also reached its limit of 2
C5_Witness ==
    /\ game_state = "SUCCEEDED"
    /\ guess_limit = 2
    /\ Len(guesses) = guess_limit

\* C6: the game starts GUESSING, its state changes only from GUESSING to
\* SUCCEEDED or to FAILED, and no step changes a SUCCEEDED or FAILED state.
C6_ForwardOnlyStateMachine ==
    /\ game_state = "GUESSING"
    /\ [][(/\ game_state' \in GameState
          /\ game_state' # game_state =>
                (game_state = "GUESSING"
                    /\ game_state' \in {"SUCCEEDED", "FAILED"}))]_vars

\* a game that failed and stayed so through a later call
C6_Witness ==
    /\ game_state = "FAILED"
    /\ result = "GameAlreadyFinishedError"

\* C7: between calls, the alphabet state of a symbol never moves backward:
\* FOUND stays; FOUND_ELSEWHERE stays or becomes FOUND; nothing returns to
\* NOT_GUESSED; UNUSED stays or becomes FOUND.
C7_AlphabetStatesMonotonic ==
    [][(\A c \in ALPHABET :
          /\ alphabet_states[c] = "FOUND" => alphabet_states'[c] = "FOUND"
          /\ alphabet_states[c] = "FOUND_ELSEWHERE" =>
                alphabet_states'[c] \in {"FOUND_ELSEWHERE", "FOUND"}
          /\ alphabet_states[c] # "NOT_GUESSED" =>
                alphabet_states'[c] # "NOT_GUESSED"
          /\ alphabet_states[c] = "UNUSED" =>
                alphabet_states'[c] \in {"UNUSED", "FOUND"})]_vars

\* the outcomes that the i-th guess of the history gave symbol c
OutcomesOf(c, i) ==
    {guesses[i].guess_letter_states[j][2] :
        j \in {k \in DOMAIN guesses[i].guess_letter_states :
                  guesses[i].guess_letter_states[k][1] = c}}

\* a symbol that was FOUND after the first guess and scored ELSEWHERE and
\* nothing better in the second
C7_Witness ==
    /\ Len(guesses) = 2
    /\ \E c \in ALPHABET :
          /\ "CORRECT" \in OutcomesOf(c, 1)
          /\ OutcomesOf(c, 2) = {"ELSEWHERE"}
          /\ alphabet_states[c] = "FOUND"

APPLE == <<"A", "P", "P", "L", "E">>

\* the guess of test_guess_double_letter_one_elsewhere
POPOP == <<"P", "O", "P", "O", "P">>

\* every guess_word_ and target_word of the tests
FixtureWords ==
    {APPLE, POPOP,
     <<"S", "H", "O", "O", "T">>,
     <<"P", "A", "L", "E", "R">>,
     <<"P", "O", "B", "O", "P">>,
     <<"A", "B", "P", "O", "P", "P", "E", "E">>,
     <<"P", "O", "P", "P">>,
     <<"O", "K">>,
     <<>>}

\* the call Guess(guess_word_, target_word) of a test, after lines 216-217
InitFixture ==
    /\ sc_guess \in FixtureWords
    /\ sc_target \in FixtureWords
    /\ sc_loc = ScoreStart(sc_guess, sc_target)
    /\ sc_pc = "correct"
    /\ sc_i = 1
    /\ GameIdle
    /\ TuiIdle
    /\ CallIdle

SpecFixture == InitFixture /\ [][NextScore]_vars

\* C11: scoring the guess POPOP against the target APPLE returns
\* (P, ELSEWHERE), (O, INCORRECT), (P, CORRECT), (O, INCORRECT),
\* (P, INCORRECT): the exact match at the third position is fixed first, the
\* first P takes the one P that is left, and the last P finds none.
C11_PopopAgainstApple ==
    (sc_pc = "done" /\ sc_guess = POPOP /\ sc_target = APPLE) =>
        sc_loc.states = << <<"P", "ELSEWHERE">>, <<"O", "INCORRECT">>,
                           <<"P", "CORRECT">>, <<"O", "INCORRECT">>,
                           <<"P", "INCORRECT">> >>

\* the finished scoring of POPOP against APPLE
C11_Witness ==
    /\ sc_pc = "done"
    /\ sc_guess = POPOP
    /\ sc_target = APPLE
    /\ Len(sc_loc.states) = 5

(***************************************************************************)
(* Properties of the alphabet states, checked under Spec.                  *)
(***************************************************************************)
\* the alphabet states of __init__ (game.py:94-96)
NotGuessedYet == [c \in ALPHABET |-> "NOT_GUESSED"]

\* the state that C12 gives a symbol whose state was before and that
\* received outcome
RuleStep(before, outcome) ==
    IF outcome = "CORRECT" THEN "FOUND"
    ELSE IF outcome = "ELSEWHERE"
    THEN IF before = "FOUND" THEN "FOUND" ELSE "FOUND_ELSEWHERE"
    ELSE IF before = "NOT_GUESSED" THEN "UNUSED" ELSE before

RECURSIVE PairsFollowRule(_, _, _, _, _)
\* from the j-th pair of the n-th guess of history on, and from alphabet
\* states states_nj, each pair goes through the loop body of
\* _update_alphabet_states as RuleStep says, no other symbol changes, and the
\* last pair leaves states_end
PairsFollowRule(history, n, j, states_nj, states_end) ==
    IF n > Len(history)
    THEN states_nj = states_end
    ELSE IF j > Len(history[n].guess_letter_states)
    THEN PairsFollowRule(history, n + 1, 1, states_nj, states_end)
    ELSE LET symbol_j  == history[n].guess_letter_states[j][1]
             outcome_j == history[n].guess_letter_states[j][2]
             after_j   == UpdateLetter(states_nj, symbol_j, outcome_j)
         IN  /\ ~after_j.raised
             /\ after_j.alpha[symbol_j] = RuleStep(states_nj[symbol_j], outcome_j)
             /\ \A d \in ALPHABET \ {symbol_j} : after_j.alpha[d] = states_nj[d]
             /\ PairsFollowRule(history, n, j + 1, after_j.alpha, states_end)

OneStep(states_before, guess) ==
    [d \in ALPHABET |->
        LET outcomes == {guess.guess_letter_states[j][2] :
                            j \in {k \in DOMAIN guess.guess_letter_states :
                                      guess.guess_letter_states[k][1] = d}}
        IN  IF "CORRECT" \in outcomes THEN "FOUND"
            ELSE IF "ELSEWHERE" \in outcomes /\ states_before[d] # "FOUND"
            THEN "FOUND_ELSEWHERE"
            ELSE IF states_before[d] = "NOT_GUESSED" /\ "INCORRECT" \in outcomes
            THEN "UNUSED"
            ELSE states_before[d]]

RECURSIVE UpdatesEqualOneStep(_, _, _, _)
\* from the n-th guess of history on, and from alphabet states states_n,
\* _update_alphabet_states leaves after each guess the states that OneStep
\* computes, and after the last guess states_end
UpdatesEqualOneStep(history, n, states_n, states_end) ==
    IF n > Len(history)
    THEN states_n = states_end
    ELSE LET updated == _update_alphabet_states(states_n, history[n])
         IN  /\ ~updated.raised
             /\ updated.alpha = OneStep(states_n, history[n])
             /\ UpdatesEqualOneStep(history, n + 1, updated.alpha, states_end)

\* C13: for every accepted guess, the alphabet states that the in-place,
\* letter-by-letter update leaves equal the states computed in one step from
\* the states before the guess and the set of outcomes of each symbol: FOUND
\* if it has a CORRECT; else FOUND_ELSEWHERE if it has an ELSEWHERE and was
\* not FOUND; else UNUSED if it was NOT_GUESSED and has an INCORRECT; else
\* unchanged.  Stated of every guess of the history, from the states of
\* __init__ to the current alphabet states.
C13_InPlaceEqualsOneStep ==
    UpdatesEqualOneStep(guesses, 1, NotGuessedYet, alphabet_states)

\* a guess whose update wrote UNUSED for a symbol that was NOT_GUESSED and
\* then, reading that, FOUND over it
C13_Witness ==
    /\ Len(guesses) = 1
    /\ \E d \in ALPHABET :
          /\ guesses[1].guess_letter_states[1] = <<d, "INCORRECT">>
          /\ "CORRECT" \in OutcomesOf(d, 1)
          /\ alphabet_states[d] = "FOUND"

(***************************************************************************)
(* Further properties of the game, checked under Spec.                     *)
(***************************************************************************)
\* C14: is_valid_word(w) holds exactly when w is in the dictionary and has
\* the length of the target, whether or not a target word length was given
\* to the constructor; hence every guess of the history has the length of
\* the target.
C14_ValidWordsHaveTargetLength ==
    /\ \A w \in Candidates :
          is_valid_word(w) <=> (w \in word_dictionary /\ Len(w) = Len(target))
    /\ \A i \in DOMAIN guesses :
          /\ guesses[i].guess_word \in word_dictionary
          /\ Len(guesses[i].guess_word) = Len(target)

\* a game whose dictionary holds a word of another length than the target's
\* (so constructed without a word length), after two accepted guesses and a
\* rejected call
C14_Witness ==
    /\ \E w \in word_dictionary : Len(w) # Len(target)
    /\ Len(guesses) = 2
    /\ result = "InvalidGuessWordError"

(***************************************************************************)
(* WordleGame of the revision wordall.py (wordall.py:55-125): no alphabet  *)
(* states, and guess_word tests the candidate against the dictionary only. *)
(***************************************************************************)
\* WordleGame.guess_word (wordall.py:109-125), one call with argument w; the
\* termination check (wordall.py:119-125) is that of game.py:145-152
wordall_guess_word(w) ==
    /\ UNCHANGED <<guess_limit, word_dictionary, target, alphabet_states,
                   scoreVars>>
    /\ IF game_state # "GUESSING"
       THEN /\ result' = "GameAlreadyFinishedError"
            /\ UNCHANGED <<guesses, game_state>>
       ELSE IF w \notin word_dictionary
       THEN /\ result' = "InvalidGuessWordError"
            /\ UNCHANGED <<guesses, game_state>>
       ELSE LET guess == Guess(w, target)
                term  == Termination(w, Append(guesses, guess))
            IN  /\ Len(guesses) < MaxGuesses
                /\ guesses' = Append(guesses, guess)
                /\ game_state' = term.game_state
                /\ result' = term.returns

\* WordleGame.__init__ (wordall.py:58-75): guess_limit is an int, the
\* argument word_length (here target_word_length) is None or a length
InitWordall ==
    /\ \E all_words \in DictionaryFiles, target_word_length \in TargetWordLengths :
          LET loaded == _load_word_dictionary(all_words, target_word_length)
          IN  /\ loaded.raises = ""
              /\ word_dictionary = loaded.returns
    /\ guess_limit \in 0..MaxGuesses
    /\ target \in word_dictionary
    /\ guesses = <<>>
    /\ alphabet_states = [c \in ALPHABET |-> "NOT_GUESSED"]
    /\ game_state = "GUESSING"
    /\ result = "none"
    /\ ScoreIdle
    /\ TuiIdle
    /\ CallIdle

NextWordall ==
    \E w \in Candidates :
        wordall_guess_word(w) /\ UNCHANGED <<tuiVars, callVars>>

SpecWordall == InitWordall /\ [][NextWordall]_vars

\* C15: in the revision wordall.py, guess_word rejects every candidate whose
\* length differs from the target's, however the game was constructed, and
\* appends nothing for it: no entry of the history has another length than
\* the target.
C15_WrongLengthNeverAppended ==
    \A i \in DOMAIN guesses : Len(guesses[i].guess_word) = Len(target)

(***************************************************************************)
(* Further properties of the game, checked under Spec (continued).         *)
(***************************************************************************)
\* C16: a game constructed with guess_limit None never becomes FAILED,
\* whatever the number of accepted guesses: it is GUESSING until the target
\* is accepted and SUCCEEDED from then on.
C16_NoLimitNeverFails ==
    guess_limit = None =>
        /\ game_state # "FAILED"
        /\ target \notin GuessedWords => game_state = "GUESSING"
        /\ target \in GuessedWords => game_state = "SUCCEEDED"

\* a game without a limit, still GUESSING after as many accepted guesses as
\* the bound allows
C16_Witness ==
    /\ guess_limit = None
    /\ Len(guesses) = MaxGuesses
    /\ game_state = "GUESSING"
    /\ result = "False"

\* C17: a call of guess_word that does not raise returns True exactly when
\* the game state after it is SUCCEEDED or FAILED, and False exactly when it
\* is GUESSING.
C17_ReturnTellsFinished ==
    /\ result = "True" => game_state \in {"SUCCEEDED", "FAILED"}
    /\ result = "False" => game_state = "GUESSING"

\* a call that returned True on the guess that used up a limit of 1 without
\* finding the target
C17_Witness ==
    /\ result = "True"
    /\ game_state = "FAILED"
    /\ guess_limit = 1
    /\ Len(guesses) = 1

\* C18: the guess history is append-only and in submission order: every
\* entry's target_word is the target, and a call either leaves the history as
\* it is or leaves the earlier entries unchanged and appends one entry, the
\* Guess of a candidate against the target (its word a dictionary word, its
\* target_word the target, its guess_letter_states the scoring of the two).
C18_HistoryAppendOnly ==
    /\ [](\A i \in DOMAIN guesses : guesses[i].target_word = target)
    /\ [][(\/ guesses' = guesses
           \/ /\ Accepted
              /\ SubSeq(guesses', 1, Len(guesses)) = guesses
              /\ AcceptedWord \in word_dictionary
              /\ guesses'[Len(guesses')].target_word = target
              /\ guesses'[Len(guesses')].guess_letter_states =
                    _get_guess_letter_states(AcceptedWord, target))]_vars

\* a history of two different words, the second one the target
C18_Witness ==
    /\ Len(guesses) = 2
    /\ guesses[1].guess_word # guesses[2].guess_word
    /\ guesses[2].guess_word = target

(***************************************************************************)
(* Further properties of the scorer, checked under SpecScore.              *)
(***************************************************************************)
\* no symbol occurs twice in word
NoRepeats(word) ==
    \A i \in DOMAIN word : \A j \in DOMAIN word : i # j => word[i] # word[j]

\* the symbols of word
SymbolsOf(word) == {word[i] : i \in DOMAIN word}

\* C19: for a guess and a target of equal length, neither with a repeated
\* symbol, a guess identical to the target is scored all CORRECT, and a guess
\* that shares no symbol with the target is scored all INCORRECT.
C19_AllCorrectAllIncorrect ==
    (/\ sc_pc = "done"
     /\ Len(sc_guess) = Len(sc_target)
     /\ NoRepeats(sc_guess)
     /\ NoRepeats(sc_target)) =>
        /\ sc_guess = sc_target =>
              \A i \in DOMAIN sc_guess :
                  sc_loc.states[i] = <<sc_guess[i], "CORRECT">>
        /\ SymbolsOf(sc_guess) \cap SymbolsOf(sc_target) = {} =>
              \A i \in DOMAIN sc_guess :
                  sc_loc.states[i] = <<sc_guess[i], "INCORRECT">>

\* the finished scoring of a guess of two different symbols against itself
C19_Witness ==
    /\ sc_pc = "done"
    /\ Len(sc_guess) = 2
    /\ NoRepeats(sc_guess)
    /\ sc_guess = sc_target
    /\ \A i \in DOMAIN sc_guess : sc_loc.states[i][2] = "CORRECT"

\* C20: scoring finishes on words of unequal length and on empty words.  For
\* a guess longer than the target, no position past the target's length is
\* CORRECT, and such a position is ELSEWHERE exactly when its symbol has a
\* count left, INCORRECT otherwise; for a guess shorter than the target there
\* are exactly len(guess) outcomes; an empty guess gives the empty list; an
\* empty target gives all INCORRECT.
C20_UnequalAndEmptyWords ==
    sc_pc = "done" =>
        /\ DOMAIN sc_loc.states = 1..Len(sc_guess)
        /\ \A i \in DOMAIN sc_guess :
              i > Len(sc_target) =>
                  /\ sc_loc.states[i][2] # "CORRECT"
                  /\ sc_loc.states[i][2] = "ELSEWHERE" <=>
                        RemainingFor(i, sc_loc.states, sc_guess, sc_target) > 0
                  /\ sc_loc.states[i][2] = "INCORRECT" <=>
                        RemainingFor(i, sc_loc.states, sc_guess, sc_target) <= 0
        /\ sc_guess = <<>> => sc_loc.states = <<>>
        /\ sc_target = <<>> =>
              \A i \in DOMAIN sc_guess :
                  sc_loc.states[i] = <<sc_guess[i], "INCORRECT">>

\* the finished scoring of a guess longer than a non-empty target, with one
\* position past the target's length ELSEWHERE and another INCORRECT
C20_Witness ==
    /\ sc_pc = "done"
    /\ Len(sc_target) > 0
    /\ \E i \in DOMAIN sc_guess : \E j \in DOMAIN sc_guess :
          /\ i > Len(sc_target)
          /\ j > Len(sc_target)
          /\ sc_loc.states[i][2] = "ELSEWHERE"
          /\ sc_loc.states[j][2] = "INCORRECT"

(***************************************************************************)
(* Guess as a value (game.py:189-210), checked under SpecScore.            *)
(***************************************************************************)
\* Guess.__eq__ comparing each word with the other record's other word
GuessEqCrossed(self, other) ==
    /\ self.guess_word = other.target_word
    /\ self.target_word = other.guess_word
    /\ self.guess_letter_states = other.guess_letter_states

\* Guess.__eq__ (game.py:203-210) on two Guess records
GuessEq(self, other) ==
    /\ self.guess_word = other.guess_word
    /\ self.target_word = other.target_word
    /\ self.guess_letter_states = other.guess_letter_states

\* the Guess that the scoring run in progress constructs
GuessOfRun ==
    [target_word         |-> sc_target,
     guess_word          |-> sc_guess,
     guess_letter_states |-> sc_loc.states]

MaxTextLen == 2

\* the characters of submitted text
TextLetters == {"A", "B", "a", "b"}

\* str.upper on one character
upper_char == [c \in TextLetters |->
                 IF c = "a" THEN "A" ELSE IF c = "b" THEN "B" ELSE c]

\* str.upper on a text
upper(value) == [i \in DOMAIN value |-> upper_char[value[i]]]

\* the texts an Input.Submitted event carries
SubmittedTexts == WordsOver(TextLetters, MaxTextLen)

\* the word dictionary of the app's game: words of the target length
AppDictionary == {<<"A", "B">>, <<"B", "A">>, <<"A", "A">>}

\* the guess limits of the app's game
AppGuessLimits == {None} \cup (1..MaxGuesses)

\* ValidGuessWord.validate testing the text as typed
validate_AsTyped(value) == is_valid_word(value)

\* ValidGuessWord.validate (tui/app.py:169-174): is_valid of the result
validate(value) == is_valid_word(upper(value))

\* WordallApp.compose with GuessesFromListDisplay.compose: the widgets of
\* the app for a game of the given guess limit.  range(guess_limit) raises
\* TypeError when the limit is None, which ends the app.
compose(limit) ==
    [app_state       |-> IF limit = None THEN "TypeError" ELSE "running",
     label           |-> [kind |-> "New Game Started.", value |-> <<>>],
     input_value     |-> <<>>,
     input_disabled  |-> FALSE,
     guess_rows      |-> IF limit = None THEN 0 ELSE limit,
     target_displays |-> 0]

\* the end of the handler with the target display mounted but the input
\* left enabled
on_game_ended_InputLeftEnabled(game_ended) ==
    IF game_ended
    THEN /\ target_displays' = target_displays + 1
         /\ UNCHANGED input_disabled
    ELSE UNCHANGED <<target_displays, input_disabled>>

\* the end of WordallApp.guess_word (tui/app.py:131-139)
on_game_ended(game_ended) ==
    IF game_ended
    THEN /\ target_displays' = target_displays + 1
         /\ input_disabled' = TRUE
    ELSE UNCHANGED <<target_displays, input_disabled>>

\* WordallApp.guess_word (tui/app.py:108-139), the handler of
\* Input.Submitted; a disabled input submits nothing
WordallApp_guess_word(value) ==
    /\ app_state = "running"
    /\ ~input_disabled
    /\ call_in' = [function |-> "guess_word", value |-> value]
    /\ UNCHANGED <<call_out, guess_rows>>
    /\ IF game_state # "GUESSING"
       THEN /\ app_state' = "AssertionError"
            /\ input_value' = value
            /\ UNCHANGED <<gameVars, scoreVars, label, input_disabled,
                           target_displays>>
       ELSE IF ~validate(value)
       THEN /\ label' = [kind |-> "Invalid guess", value |-> value]
            /\ input_value' = value
            /\ UNCHANGED <<gameVars, scoreVars, app_state, input_disabled,
                           target_displays>>
       ELSE /\ guess_word(upper(value))
            /\ IF result' = "InvalidGuessWordError"
               THEN /\ label' = [kind |-> "ERROR", value |-> upper(value)]
                    /\ input_value' = value
                    /\ UNCHANGED <<app_state, input_disabled, target_displays>>
               ELSE IF result' \in {"True", "False"}
               THEN /\ label' = [kind |-> "Guessed", value |-> value]
                    /\ input_value' = <<>>
                    /\ on_game_ended(result' = "True")
                    /\ UNCHANGED app_state
               ELSE /\ app_state' = result'
                    /\ input_value' = value
                    /\ UNCHANGED <<label, input_disabled, target_displays>>

\* action_new_game keeping the widgets of the game before
action_new_game_WidgetsKept ==
    /\ app_state = "running"
    /\ target' \in word_dictionary
    /\ guesses' = <<>>
    /\ alphabet_states' = [c \in ALPHABET |-> "NOT_GUESSED"]
    /\ game_state' = "GUESSING"
    /\ result' = "none"
    /\ call_in' = [function |-> "action_new_game", value |-> <<>>]
    /\ UNCHANGED <<guess_limit, word_dictionary, scoreVars, call_out, tuiVars>>

\* action_new_game composing the widgets again around the game before
action_new_game_GameKept ==
    /\ app_state = "running"
    /\ app_state' = compose(guess_limit).app_state
    /\ label' = compose(guess_limit).label
    /\ input_value' = compose(guess_limit).input_value
    /\ input_disabled' = compose(guess_limit).input_disabled
    /\ guess_rows' = compose(guess_limit).guess_rows
    /\ target_displays' = compose(guess_limit).target_displays
    /\ call_in' = [function |-> "action_new_game", value |-> <<>>]
    /\ UNCHANGED <<gameVars, scoreVars, call_out>>

\* WordallApp.action_new_game (tui/app.py:141-143): a game constructed
\* afresh with the same arguments, and the widgets composed again
action_new_game ==
    /\ app_state = "running"
    /\ target' \in word_dictionary
    /\ guesses' = <<>>
    /\ alphabet_states' = [c \in ALPHABET |-> "NOT_GUESSED"]
    /\ game_state' = "GUESSING"
    /\ result' = "none"
    /\ app_state' = compose(guess_limit).app_state
    /\ label' = compose(guess_limit).label
    /\ input_value' = compose(guess_limit).input_value
    /\ input_disabled' = compose(guess_limit).input_disabled
    /\ guess_rows' = compose(guess_limit).guess_rows
    /\ target_displays' = compose(guess_limit).target_displays
    /\ call_in' = [function |-> "action_new_game", value |-> <<>>]
    /\ UNCHANGED <<guess_limit, word_dictionary, scoreVars, call_out>>

\* WordallApp.__init__ and compose (tui/app.py:59-106): the app when it
\* starts
InitTui ==
    /\ word_dictionary = AppDictionary
    /\ guess_limit \in AppGuessLimits
    /\ target \in word_dictionary
    /\ guesses = <<>>
    /\ alphabet_states = [c \in ALPHABET |-> "NOT_GUESSED"]
    /\ game_state = "GUESSING"
    /\ result = "none"
    /\ app_state = compose(guess_limit).app_state
    /\ label = compose(guess_limit).label
    /\ input_value = compose(guess_limit).input_value
    /\ input_disabled = compose(guess_limit).input_disabled
    /\ guess_rows = compose(guess_limit).guess_rows
    /\ target_displays = compose(guess_limit).target_displays
    /\ ScoreIdle
    /\ CallIdle

NextTui ==
    \/ \E value \in SubmittedTexts : WordallApp_guess_word(value)
    \/ action_new_game

SpecTui == InitTui /\ [][NextTui]_vars

\* C22: under any sequence of submissions and new-game actions, the number
\* of mounted target displays grows only in a step of the guess handler in
\* which guess_word appended a guess and returned True, and while the
\* current game is GUESSING no target display is mounted.
C22_TargetShownOnlyAtEnd ==
    /\ [](game_state = "GUESSING" => target_displays = 0)
    /\ [][(target_displays' > target_displays =>
              /\ call_in'.function = "guess_word"
              /\ guesses' # guesses
              /\ result' = "True")]_vars

\* the app after the submission that lost the game: guess_word returned
\* True and the target display is mounted
C22_Witness ==
    /\ call_in.function = "guess_word"
    /\ app_state = "running"
    /\ result = "True"
    /\ game_state = "FAILED"
    /\ target_displays = 1

\* C23: when a submitted guess ends the game, by winning or by using up the
\* guess limit, the handler has mounted the one target display and disabled
\* the guess input, and no step of the guess handler is taken while the
\* game is finished: the next step, if any, is a new game.
C23_EndedGameTakesNoGuess ==
    /\ [](game_state \in {"SUCCEEDED", "FAILED"} =>
             /\ app_state = "running"
             /\ target_displays = 1
             /\ input_disabled)
    /\ [][(game_state \in {"SUCCEEDED", "FAILED"} =>
              /\ call_in'.function = "action_new_game"
              /\ guesses' = <<>>)]_vars

\* the app after the winning submission, typed in lower case
C23_Witness ==
    /\ call_in = [function |-> "guess_word", value |-> <<"b", "a">>]
    /\ game_state = "SUCCEEDED"
    /\ Len(guesses) = 2
    /\ target_displays = 1
    /\ input_disabled

(***************************************************************************)
(* The Textual app of run.py over a WordleGame of game.py.                 *)
(***************************************************************************)
\* the guess limits of the app's game
RunGuessLimits == 1..MaxGuesses

\* the end of WordallApp.guess_word (run.py:64-66)
run_on_game_ended(game_ended) ==
    IF game_ended
    THEN /\ target_displays' = target_displays + 1
         /\ UNCHANGED input_disabled
    ELSE UNCHANGED <<target_displays, input_disabled>>

\* WordallApp.guess_word (run.py:44-66), the handler of Input.Submitted; an
\* exception that the handler does not catch ends the app
run_guess_word(value) ==
    /\ app_state = "running"
    /\ ~input_disabled
    /\ call_in' = [function |-> "guess_word", value |-> value]
    /\ UNCHANGED <<call_out, guess_rows>>
    /\ IF ~validate(value)
       THEN /\ label' = [kind |-> "Invalid guess", value |-> value]
            /\ input_value' = value
            /\ UNCHANGED <<gameVars, scoreVars, app_state, input_disabled,
                           target_displays>>
       ELSE /\ guess_word(upper(value))
            /\ IF result' = "InvalidGuessWordError"
               THEN /\ label' = [kind |-> "ERROR", value |-> upper(value)]
                    /\ input_value' = value
                    /\ UNCHANGED <<app_state, input_disabled, target_displays>>
               ELSE IF result' \in {"True", "False"}
               THEN /\ label' = [kind |-> "Guessed", value |-> value]
                    /\ input_value' = <<>>
                    /\ run_on_game_ended(result' = "True")
                    /\ UNCHANGED app_state
               ELSE /\ app_state' = result'
                    /\ input_value' = value
                    /\ UNCHANGED <<label, input_disabled, target_displays>>

\* WordallApp.__init__ and compose (run.py:21-42): the app when it starts
InitRun ==
    /\ word_dictionary = AppDictionary
    /\ guess_limit \in RunGuessLimits
    /\ target \in word_dictionary
    /\ guesses = <<>>
    /\ alphabet_states = [c \in ALPHABET |-> "NOT_GUESSED"]
    /\ game_state = "GUESSING"
    /\ result = "none"
    /\ app_state = "running"
    /\ label = [kind |-> "", value |-> <<>>]
    /\ input_value = <<>>
    /\ input_disabled = FALSE
    /\ guess_rows = guess_limit
    /\ target_displays = 0
    /\ ScoreIdle
    /\ CallIdle

NextRun == \E value \in SubmittedTexts : run_guess_word(value)

SpecRun == InitRun /\ [][NextRun]_vars

\* C24: in run.py's app, when a submitted guess ends the game the target
\* display is mounted and the guess input is disabled, and no later
\* submission reaches guess_word on the finished game, which would raise
\* GameAlreadyFinishedError.
C24_RunEndedGameTakesNoGuess ==
    /\ game_state \in {"SUCCEEDED", "FAILED"} =>
          /\ target_displays = 1
          /\ input_disabled
    /\ result # "GameAlreadyFinishedError"
    /\ app_state = "running"

\* C25: in tui/app.py a submitted text whose upper-cased form fails
\* is_valid_word leaves the game untouched (history, alphabet states and game
\* state unchanged) and sets the label to the 'Invalid guess' message with
\* the text; any other submitted text is passed to guess_word upper-cased,
\* which appends its Guess to the history, and the input is cleared.
C25_InvalidTextLeavesGame ==
    [][(call_in'.function = "guess_word" =>
           IF ~is_valid_word(upper(call_in'.value))
           THEN /\ UNCHANGED <<guesses, alphabet_states, game_state, result>>
                /\ label' = [kind |-> "Invalid guess", value |-> call_in'.value]
           ELSE /\ guesses' = Append(guesses, Guess(upper(call_in'.value), target))
                /\ label' = [kind |-> "Guessed", value |-> call_in'.value]
                /\ input_value' = <<>>)]_vars

\* the app after a valid submission in lower case that did not end the game
C25_Witness ==
    /\ call_in = [function |-> "guess_word", value |-> <<"b", "a">>]
    /\ label = [kind |-> "Guessed", value |-> <<"b", "a">>]
    /\ guesses[Len(guesses)].guess_word = <<"B", "A">>
    /\ game_state = "GUESSING"
    /\ input_value = <<>>

\* C26: in the TUI with a game without guess limit the app runs with zero
\* guess rows when the game starts and, after every accepted guess, with
\* exactly one row per guess of the history.
C26_OneRowPerGuessWithoutLimit ==
    guess_limit = None =>
        /\ app_state = "running"
        /\ guess_rows = Len(guesses)

(***************************************************************************)
(* NumberleGame (games/numberle.py): the target drawn by the constructor   *)
(* and is_valid_word.                                                      *)
(***************************************************************************)
\* the largest target_word_length of a NumberleGame
MaxDigits == 2

\* the base of the target's numeral: random.randrange(10**target_word_length)
Base == 10

\* string.digits in order: the digit of value d is at position d + 1
digits == <<"0", "1", "2", "3", "4", "5", "6", "7", "8", "9">>

\* NumberleGame.ALPHABET as a set of characters
NumberleAlphabet == {digits[d] : d \in DOMAIN digits}

\* the characters of the words handed to NumberleGame.is_valid_word
NumberleChars == {"0", "7", "A", " "}

\* the words handed to NumberleGame.is_valid_word
NumberleWords == WordsOver(NumberleChars, MaxDigits + 1)

\* Base to the power e
RECURSIVE Power(_)
Power(e) == IF e = 0 THEN 1 ELSE Base * Power(e - 1)

\* str(number) of an int that is not negative: no leading zeros
RECURSIVE str(_)
str(number) ==
    IF number < Base
    THEN <<digits[number + 1]>>
    ELSE Append(str(number \div Base), digits[(number % Base) + 1])

\* str.zfill without the padding: the text as it is
zfill_NoPadding(text, width) == text

\* str.zfill on a text without sign: zeros on the left up to the width
RECURSIVE zfill(_, _)
zfill(text, width) ==
    IF Len(text) >= width THEN text ELSE zfill(<<"0">> \o text, width)

\* NumberleGame._select_target (games/numberle.py:19-24) for the number that
\* random.randrange draws
_select_target(target_word_length, number) ==
    zfill(str(number), target_word_length)

\* NumberleGame.is_valid_word without the length test
numberle_is_valid_word_AnyLength(word) ==
    \A i \in DOMAIN word : word[i] \in NumberleAlphabet

\* NumberleGame.is_valid_word (games/numberle.py:26-27) with
\* Game.is_word_in_alphabet (game.py:58-61) over the digits
numberle_is_valid_word(word) ==
    /\ \A i \in DOMAIN word : word[i] \in NumberleAlphabet
    /\ Len(word) = Len(target)

\* NumberleGame.__init__ (games/numberle.py:10-17) with the number drawn
NumberleGame(target_word_length, number) ==
    /\ call_in.function = "none"
    /\ target' = _select_target(target_word_length, number)
    /\ call_in' = [function           |-> "NumberleGame",
                   target_word_length |-> target_word_length,
                   number             |-> number,
                   word               |-> <<>>]
    /\ call_out' = [done |-> TRUE, returns |-> FALSE]
    /\ UNCHANGED <<guess_limit, word_dictionary, guesses, alphabet_states,
                   game_state, result, scoreVars, tuiVars>>

\* a call of is_valid_word on the constructed game; the call changes no
\* field, so one call per game shows them all
is_valid_word_call(word) ==
    /\ call_in.function = "NumberleGame"
    /\ call_in' = [call_in EXCEPT !.function = "is_valid_word", !.word = word]
    /\ call_out' = [done |-> TRUE, returns |-> numberle_is_valid_word(word)]
    /\ UNCHANGED <<gameVars, scoreVars, tuiVars>>

\* before the constructor runs
InitNumberle == GameIdle /\ ScoreIdle /\ TuiIdle /\ CallIdle

NextNumberle ==
    \/ \E target_word_length \in 0..MaxDigits :
          \E number \in 0..(Power(target_word_length) - 1) :
              NumberleGame(target_word_length, number)
    \/ \E word \in NumberleWords : is_valid_word_call(word)

SpecNumberle == InitNumberle /\ [][NextNumberle]_vars

\* the value of a numeral: int(text) on a text of digits
RECURSIVE DigitsValue(_)
DigitsValue(text) ==
    IF text = <<>>
    THEN 0
    ELSE DigitsValue(SubSeq(text, 1, Len(text) - 1)) * Base
         + (CHOOSE d \in 0..(Base - 1) : digits[d + 1] = text[Len(text)])

\* C27: NumberleGame.is_valid_word(w) is True exactly when every character
\* of w is one of the digits 0 to 9 and w has the target's length.
C27_DigitsOfTargetLength ==
    call_in.function = "is_valid_word" =>
        (call_out.returns <=>
            /\ \A i \in 1..Len(call_in.word) :
                  call_in.word[i] \in {"0", "1", "2", "3", "4",
                                       "5", "6", "7", "8", "9"}
            /\ Len(call_in.word) = Len(target))

\* a word of digits that is one longer than the target, rejected
C27_Witness ==
    /\ call_in.function = "is_valid_word"
    /\ call_in.word = <<"0", "7", "0">>
    /\ target = <<"0", "7">>
    /\ call_out.returns = FALSE

\* C28: for every target_word_length L >= 1 and every drawn number n with
\* 0 <= n < 10^L, the target is the decimal numeral of n padded with zeros
\* on the left to exactly L characters: its length is L, every character is
\* a digit, and its value is n.
C28_TargetIsPaddedNumeral ==
    (call_in.function # "none" /\ call_in.target_word_length >= 1) =>
        /\ Len(target) = call_in.target_word_length
        /\ \A i \in 1..Len(target) : target[i] \in NumberleAlphabet
        /\ DigitsValue(target) = call_in.number

\* a one-digit number drawn for a target of two characters
C28_Witness ==
    /\ call_in.function = "NumberleGame"
    /\ call_in.target_word_length = 2
    /\ call_in.number = 7
    /\ target = <<"0", "7">>

(***************************************************************************)
(* WordleGame._load_word_dictionary (game.py:99-125, games/wordle.py:40-66) *)
(* on files whose lines hold blanks and symbols outside the alphabet.      *)
(***************************************************************************)
\* the most lines of a dictionary file
MaxFileLines == 2

\* the most characters of a line of a dictionary file
MaxLineLen == 2

\* the characters of a dictionary file: a letter, a symbol outside the
\* alphabet and a blank
FileChars == {"A", "8", " "}

\* the lines of a dictionary file
FileLines == WordsOver(FileChars, MaxLineLen)

\* the dictionary files: sequences of lines
Files == WordsOver(FileLines, MaxFileLines)

\* str.lstrip: the line without the blanks at its start
RECURSIVE lstrip(_)
lstrip(line) ==
    IF line # <<>> /\ Head(line) = " " THEN lstrip(Tail(line)) ELSE line

\* str.rstrip: the line without the blanks at its end
RECURSIVE rstrip(_)
rstrip(line) ==
    IF line # <<>> /\ line[Len(line)] = " "
    THEN rstrip(SubSeq(line, 1, Len(line) - 1))
    ELSE line

\* str.strip
strip(line) == rstrip(lstrip(line))

\* the list all_words of _load_word_dictionary (game.py:111), as a set: the
\* stripped lines of the file that are not empty
all_words_of(file) == {strip(file[i]) : i \in DOMAIN file} \ {<<>>}

\* a call of _load_word_dictionary on a file
load_word_dictionary_call(file, word_length) ==
    /\ call_in.function = "none"
    /\ call_in' = [function    |-> "_load_word_dictionary",
                   file        |-> file,
                   word_length |-> word_length]
    /\ call_out' = [done    |-> TRUE,
                    raises  |-> _load_word_dictionary(all_words_of(file),
                                                      word_length).raises,
                    returns |-> _load_word_dictionary(all_words_of(file),
                                                      word_length).returns]
    /\ UNCHANGED <<gameVars, scoreVars, tuiVars>>

\* before the call
InitLoad == GameIdle /\ ScoreIdle /\ TuiIdle /\ CallIdle

NextLoad ==
    \E file \in Files, word_length \in {None} \cup (0..MaxLineLen) :
        load_word_dictionary_call(file, word_length)

SpecLoad == InitLoad /\ [][NextLoad]_vars

\* C29: _load_word_dictionary raises InvalidDictionaryFileError if any word
\* of the file has a symbol outside the alphabet, whatever the word_length
\* argument, and raises it when no word of the requested length remains;
\* otherwise it returns exactly the non-empty stripped lines of the requested
\* length.
C29_AnyInvalidWordRaises ==
    call_out.done =>
        LET words == {strip(call_in.file[i]) : i \in DOMAIN call_in.file} \ {<<>>}
            requested == {w \in words : \/ call_in.word_length = None
                                        \/ Len(w) = call_in.word_length}
        IN  IF \/ \E w \in words : \E i \in DOMAIN w : w[i] \notin ALPHABET
               \/ requested = {}
            THEN call_out.raises = "InvalidDictionaryFileError"
            ELSE /\ call_out.raises = ""
                 /\ call_out.returns = requested

(***************************************************************************)
(* SimpleFileLoader and MultipleFileLoader (word_dictionary_loaders.py).   *)
(***************************************************************************)
\* the most files of a MultipleFileLoader
MaxFiles == 2

\* the dictionary files of the loaders
LoaderFiles ==
    {<<>>,
     <<<<" ">>, <<>>>>,
     <<<<"A">>>>,
     <<<<"A", " ">>, <<"8", "8">>>>,
     <<<<"A", "A">>, <<"A">>, <<>>>>,
     <<<<"8">>, <<" ", "A">>>>}

\* the lists of files of a MultipleFileLoader
LoaderFileLists == WordsOver(LoaderFiles, MaxFiles)

\* the word_length arguments of get_word_dictionary
LoaderWordLengths == {None, 0, 1, 2}

\* the word_filter_function arguments: the default, which keeps every word,
\* the alphabet test of a game, and a function that keeps no word
WordFilterFunctions == {"keep_all", "is_word_in_alphabet", "keep_none"}

\* word_filter_function(word)
word_filter(word_filter_function, word) ==
    IF word_filter_function = "keep_all" THEN TRUE
    ELSE IF word_filter_function = "is_word_in_alphabet"
    THEN is_word_in_alphabet(word)
    ELSE FALSE

\* _read_word_dictionary_file keeping the lines that are empty when stripped
_read_word_dictionary_file_EmptyLinesKept(file, word_length, word_filter_function) ==
    {word \in {strip(file[i]) : i \in DOMAIN file} :
        /\ word_length = None \/ Len(word) = word_length
        /\ word_filter(word_filter_function, word)}

\* _read_word_dictionary_file (word_dictionary_loaders.py:201-215)
_read_word_dictionary_file(file, word_length, word_filter_function) ==
    {word \in all_words_of(file) :
        /\ word_length = None \/ Len(word) = word_length
        /\ word_filter(word_filter_function, word)}

\* the end of both get_word_dictionary methods
\* (word_dictionary_loaders.py:52-55, 90-93)
raise_if_empty(words_read) ==
    IF words_read = {}
    THEN [done |-> TRUE, raises |-> "NoWordsFoundError", returns |-> {}]
    ELSE [done |-> TRUE, raises |-> "", returns |-> words_read]

\* SimpleFileLoader.get_word_dictionary (word_dictionary_loaders.py:40-55)
SimpleFileLoader_get_word_dictionary(file, word_length, word_filter_function) ==
    /\ call_in.function = "none"
    /\ call_in' = [function             |-> "SimpleFileLoader",
                   files                |-> <<file>>,
                   word_length          |-> word_length,
                   word_filter_function |-> word_filter_function]
    /\ call_out' = raise_if_empty(
           _read_word_dictionary_file(file, word_length, word_filter_function))
    /\ UNCHANGED <<gameVars, scoreVars, tuiVars>>

\* MultipleFileLoader.get_word_dictionary (word_dictionary_loaders.py:70-93)
MultipleFileLoader_get_word_dictionary(files, word_length, word_filter_function) ==
    /\ call_in.function = "none"
    /\ call_in' = [function             |-> "MultipleFileLoader",
                   files                |-> files,
                   word_length          |-> word_length,
                   word_filter_function |-> word_filter_function]
    /\ call_out' = raise_if_empty(
           IF files # <<>>
           THEN UNION {_read_word_dictionary_file(files[k], word_length,
                                                  word_filter_function) :
                          k \in DOMAIN files}
           ELSE {})
    /\ UNCHANGED <<gameVars, scoreVars, tuiVars>>

\* before the call
InitLoaders == GameIdle /\ ScoreIdle /\ TuiIdle /\ CallIdle

NextLoaders ==
    \/ \E file \in LoaderFiles, word_length \in LoaderWordLengths,
          word_filter_function \in WordFilterFunctions :
          SimpleFileLoader_get_word_dictionary(file, word_length,
                                               word_filter_function)
    \/ \E files \in LoaderFileLists, word_length \in LoaderWordLengths,
          word_filter_function \in WordFilterFunctions :
          MultipleFileLoader_get_word_dictionary(files, word_length,
                                                 word_filter_function)

SpecLoaders == InitLoaders /\ [][NextLoaders]_vars

\* the words that remain of a call's files: the stripped lines of all the
\* files that are not empty, have the requested length and pass the filter
RemainingOfCall ==
    {word \in UNION {{strip(call_in.files[k][i]) : i \in DOMAIN call_in.files[k]} :
                        k \in DOMAIN call_in.files} :
        /\ word # <<>>
        /\ call_in.word_length \in {None, Len(word)}
        /\ \/ call_in.word_filter_function = "keep_all"
           \/ /\ call_in.word_filter_function = "is_word_in_alphabet"
              /\ \A i \in DOMAIN word : word[i] \in ALPHABET}

\* C30: get_word_dictionary of SimpleFileLoader and of MultipleFileLoader
\* raises NoWordsFoundError exactly when the set of words that remain after
\* the removal of empty lines, the word_length filter and
\* word_filter_function is empty, an empty list of files included; otherwise
\* it returns that set, for MultipleFileLoader the union over its files.
C30_NoWordsFoundExactlyWhenEmpty ==
    call_out.done =>
        /\ call_out.raises = "NoWordsFoundError" <=> RemainingOfCall = {}
        /\ RemainingOfCall # {} =>
              /\ call_out.raises = ""
              /\ call_out.returns = RemainingOfCall

\* a MultipleFileLoader whose two files each give one word of the requested
\* length, after blank lines and a word outside the alphabet are dropped
C30_Witness ==
    /\ call_out.done
    /\ call_in.function = "MultipleFileLoader"
    /\ Len(call_in.files) = 2
    /\ call_in.word_length = 1
    /\ call_in.word_filter_function = "is_word_in_alphabet"
    /\ call_in.files[1] # call_in.files[2]
    /\ call_out.returns = {<<"A">>}
    /\ <<<<"8">>, <<" ", "A">>>> \in {call_in.files[1], call_in.files[2]}

(***************************************************************************)
(* get_word_dictionary called with keyword arguments                       *)
(* (word_dictionary_loaders.py:40-44, 70-74).                              *)
(***************************************************************************)
\* dictionary files with words in lower and mixed case
CaseFiles ==
    {<<>>,
     <<<<"a">>>>,
     <<<<"A", "b">>, <<"a", " ">>>>,
     <<<<"B">>, <<"b", "a">>>>,
     <<<<"A", "B">>>>}

\* the lists of such files
CaseFileLists == WordsOver(CaseFiles, MaxFiles)

\* the keyword argument word_transform_function of a call: left out, or one
\* of two functions on words
WordTransformFunctions == {"not given", "str.upper", "str.strip"}

\* the signature of both get_word_dictionary methods: self, word_length and
\* word_filter_function; a call with any other keyword raises TypeError
\* before the body runs
accepts_keywords(word_transform_function) ==
    word_transform_function = "not given"

\* get_word_dictionary of a loader called on its files; a SimpleFileLoader
\* has one file
get_word_dictionary(loader, files, word_length, word_filter_function, word_transform_function) ==
    /\ call_in.function = "none"
    /\ loader = "SimpleFileLoader" => Len(files) = 1
    /\ call_in' = [function                |-> loader,
                   files                   |-> files,
                   word_length             |-> word_length,
                   word_filter_function    |-> word_filter_function,
                   word_transform_function |-> word_transform_function]
    /\ call_out' =
          IF ~accepts_keywords(word_transform_function)
          THEN [done |-> TRUE, raises |-> "TypeError", returns |-> {}]
          ELSE raise_if_empty(
                   IF files # <<>>
                   THEN UNION {_read_word_dictionary_file(
                                   files[k], word_length, word_filter_function) :
                                  k \in DOMAIN files}
                   ELSE {})
    /\ UNCHANGED <<gameVars, scoreVars, tuiVars>>

\* before the call
InitKeywords == GameIdle /\ ScoreIdle /\ TuiIdle /\ CallIdle

NextKeywords ==
    \E loader \in {"SimpleFileLoader", "MultipleFileLoader"},
       files \in CaseFileLists,
       word_length \in LoaderWordLengths,
       word_filter_function \in WordFilterFunctions,
       word_transform_function \in WordTransformFunctions :
        get_word_dictionary(loader, files, word_length, word_filter_function,
                            word_transform_function)

SpecKeywords == InitKeywords /\ [][NextKeywords]_vars

\* the words of a call's files in upper case that pass the length test and,
\* in upper case, the filter
UpperCasedOfCall ==
    {upper(word) : word \in
        {w \in UNION {{strip(call_in.files[k][i]) : i \in DOMAIN call_in.files[k]} :
                         k \in DOMAIN call_in.files} :
            /\ w # <<>>
            /\ call_in.word_length \in {None, Len(w)}
            /\ \/ call_in.word_filter_function = "keep_all"
               \/ /\ call_in.word_filter_function = "is_word_in_alphabet"
                  /\ \A i \in DOMAIN w : upper(w)[i] \in ALPHABET}}

\* C31: get_word_dictionary accepts a word_transform_function and applies it
\* to every loaded word before the filter: called with str.upper it keeps a
\* word iff its upper-cased form passes the filter and returns the set of
\* the upper-cased words (raising NoWordsFoundError when that set is empty).
C31_TransformBeforeFilter ==
    (call_out.done /\ call_in.word_transform_function = "str.upper") =>
        IF UpperCasedOfCall = {}
        THEN call_out.raises = "NoWordsFoundError"
        ELSE /\ call_out.raises = ""
             /\ call_out.returns = UpperCasedOfCall

(***************************************************************************)
(* Order and counts of the outcomes of one scoring, under SpecScore.       *)
(***************************************************************************)
\* C32: in the outcomes of a scored guess, every ELSEWHERE occurrence of a
\* symbol is at a lower position than every INCORRECT occurrence of that
\* symbol.  (A CORRECT occurrence may come after an INCORRECT one: see
\* C10_Witness.)
C32_ElsewhereBeforeIncorrect ==
    sc_pc = "done" =>
        \A i \in DOMAIN sc_guess : \A j \in DOMAIN sc_guess :
            (/\ sc_guess[i] = sc_guess[j]
             /\ sc_loc.states[i][2] = "ELSEWHERE"
             /\ sc_loc.states[j][2] = "INCORRECT") => i < j

\* a finished scoring in which a symbol is ELSEWHERE at its first occurrence
\* and INCORRECT at a later one, the guess and the target of equal length
C32_Witness ==
    /\ sc_pc = "done"
    /\ Len(sc_guess) = Len(sc_target)
    /\ \E i \in DOMAIN sc_guess : \E j \in DOMAIN sc_guess :
          /\ i < j
          /\ sc_guess[i] = sc_guess[j]
          /\ sc_loc.states[i][2] = "ELSEWHERE"
          /\ sc_loc.states[j][2] = "INCORRECT"

\* the smaller of two numbers
Min(a, b) == IF a <= b THEN a ELSE b

\* the positions of the guess that hold c and are scored CORRECT or ELSEWHERE
MatchedPositions(c) ==
    {i \in DOMAIN sc_guess :
        sc_guess[i] = c /\ sc_loc.states[i][2] \in {"CORRECT", "ELSEWHERE"}}

\* C33: for every guess, target and symbol c, the number of guess positions
\* holding c that are scored CORRECT or ELSEWHERE is the smaller of c's count
\* in the guess and c's count in the target, and at no point of the scoring
\* is the remaining count kept for a symbol negative.
C33_MatchedIsMinOfCounts ==
    /\ \A c \in DOMAIN sc_loc.counter : sc_loc.counter[c] >= 0
    /\ sc_pc = "done" =>
          \A c \in ScoreSymbols :
              Cardinality(MatchedPositions(c))
                  = Min(Occurrences(c, sc_guess), Occurrences(c, sc_target))

\* a finished scoring of a guess longer than its target in which a symbol
\* has more occurrences in the guess than in the target, and its one match
\* is past the end of the target
C33_Witness ==
    /\ sc_pc = "done"
    /\ Len(sc_guess) > Len(sc_target)
    /\ \E c \in ScoreSymbols :
          /\ Occurrences(c, sc_guess) > Occurrences(c, sc_target)
          /\ Occurrences(c, sc_target) = 1
          /\ \E i \in MatchedPositions(c) : i > Len(sc_target)

(***************************************************************************)
(* The game's fields as functions of its history, under Spec.              *)
(***************************************************************************)
\* c occurs in some accepted guess
InSomeGuess(c) ==
    \E k \in DOMAIN guesses : c \in SymbolsOf(guesses[k].guess_word)

\* some accepted guess has c at a position where the target has c
MatchedInSomeGuess(c) ==
    \E k \in DOMAIN guesses : \E i \in DOMAIN target :
        /\ i <= Len(guesses[k].guess_word)
        /\ guesses[k].guess_word[i] = c
        /\ target[i] = c

\* C34: after any sequence of accepted guesses, none included, the alphabet
\* state of each symbol c follows from the history and the target alone:
\* NOT_GUESSED iff c is in no accepted guess; FOUND iff some accepted guess
\* has c where the target has c; FOUND_ELSEWHERE iff c is in the target and
\* in some accepted guess but never at a matching position; UNUSED iff c is
\* in some accepted guess and not in the target.  As the target never
\* changes, a symbol that is UNUSED stays UNUSED.
C34_AlphabetFollowsHistory ==
    \A c \in ALPHABET :
        /\ alphabet_states[c] = "NOT_GUESSED" <=> ~InSomeGuess(c)
        /\ alphabet_states[c] = "FOUND" <=> MatchedInSomeGuess(c)
        /\ alphabet_states[c] = "FOUND_ELSEWHERE" <=>
              /\ c \in SymbolsOf(target)
              /\ InSomeGuess(c)
              /\ ~MatchedInSomeGuess(c)
        /\ alphabet_states[c] = "UNUSED" <=>
              /\ InSomeGuess(c)
              /\ c \notin SymbolsOf(target)

\* a game after two accepted guesses, the first of which left a symbol
\* FOUND_ELSEWHERE that the second made FOUND
C34_Witness ==
    /\ Len(guesses) = 2
    /\ \E c \in ALPHABET :
          /\ alphabet_states[c] = "FOUND"
          /\ c \in SymbolsOf(guesses[1].guess_word)
          /\ \A i \in DOMAIN target :
                guesses[1].guess_word[i] = c => target[i] # c

\* C35: for every integer guess limit N >= 0 that the constructor accepts,
\* in every reachable state the history holds at most N guesses, and once N
\* guesses are in the history the game state is not GUESSING.
C35_HistoryWithinLimit ==
    (guess_limit # None /\ guess_limit >= 0) =>
        /\ Len(guesses) <= guess_limit
        /\ Len(guesses) = guess_limit => game_state # "GUESSING"

\* C36: in every reachable state the game state agrees with the history:
\* SUCCEEDED iff the last entry's guess word is the target; no entry but the
\* last is the target; FAILED implies that no entry is the target and that
\* the history has guess_limit entries; GUESSING implies that no entry is
\* the target.
C36_StateAgreesWithHistory ==
    /\ game_state = "SUCCEEDED" <=>
          (guesses # <<>> /\ guesses[Len(guesses)].guess_word = target)
    /\ \A k \in 1..(Len(guesses) - 1) : guesses[k].guess_word # target
    /\ game_state = "FAILED" =>
          /\ \A k \in DOMAIN guesses : guesses[k].guess_word # target
          /\ Len(guesses) = guess_limit
    /\ game_state = "GUESSING" =>
          \A k \in DOMAIN guesses : guesses[k].guess_word # target

\* a game won by its second guess, which was also the last its limit allowed
C36_Witness ==
    /\ game_state = "SUCCEEDED"
    /\ guess_limit = 2
    /\ Len(guesses) = 2
    /\ guesses[2].guess_word = target
    /\ guesses[1].guess_word # target

(***************************************************************************)
(* The games that WordallApp.get_game constructs (tui/app.py:33-83): a     *)
(* WordleGame or a NumberleGame.  call_in.function is "none" for the       *)
(* WordleGame and names the last call for the NumberleGame.                *)
(***************************************************************************)
\* get_game: the game after construction
InitRegistry ==
    /\ guess_limit \in AppGuessLimits
    /\ guesses = <<>>
    /\ alphabet_states = [c \in ALPHABET |-> "NOT_GUESSED"]
    /\ game_state = "GUESSING"
    /\ result = "none"
    /\ \/ /\ word_dictionary = AppDictionary
          /\ target \in word_dictionary
          /\ CallIdle
       \/ \E target_word_length \in 0..MaxDigits :
             \E number \in 0..(Power(target_word_length) - 1) :
                /\ word_dictionary = {}
                /\ target = _select_target(target_word_length, number)
                /\ call_in = [function           |-> "NumberleGame",
                              target_word_length |-> target_word_length,
                              number             |-> number,
                              word               |-> <<>>]
                /\ call_out = [done |-> TRUE, returns |-> FALSE]
    /\ ScoreIdle
    /\ TuiIdle

\* a call of guess_word on the WordleGame, or of is_valid_word on the
\* NumberleGame with a word of digits or with its own target
NextRegistry ==
    \/ /\ call_in.function = "none"
       /\ \E w \in Candidates : guess_word(w)
       /\ UNCHANGED <<tuiVars, callVars>>
    \/ \E word \in WordsOver({"0", "7"}, MaxDigits) \cup {target} :
          is_valid_word_call(word)

SpecRegistry == InitRegistry /\ [][NextRegistry]_vars

C38_FrameOfGuessWord ==
    /\ [](DOMAIN alphabet_states = ALPHABET)
    /\ [][(/\ UNCHANGED <<target, word_dictionary, guess_limit>>
           /\ IF Accepted
              THEN \A c \in ALPHABET \ SymbolsOf(AcceptedWord) :
                       alphabet_states'[c] = alphabet_states[c]
              ELSE UNCHANGED alphabet_states)]_vars

\* a game after an accepted guess without the symbol B, while B is still
\* NOT_GUESSED and the other symbol is not
C38_Witness ==
    /\ guesses # <<>>
    /\ result \in {"True", "False"}
    /\ "B" \notin SymbolsOf(guesses[Len(guesses)].guess_word)
    /\ alphabet_states["B"] = "NOT_GUESSED"
    /\ alphabet_states["A"] # "NOT_GUESSED"

\* C39: in tui/app.py, a disabled input submitting nothing, under any
\* interleaving of submissions and new-game actions the submit handler is
\* entered only while the current game is GUESSING: its entry assertion
\* never fails and GameAlreadyFinishedError never reaches the app; and after
\* a new-game action the app holds a fresh game in GUESSING with an empty
\* history and an enabled input.
C39_HandlerOnlyWhileGuessing ==
    /\ [](/\ app_state \notin {"AssertionError", "GameAlreadyFinishedError"}
          /\ result # "GameAlreadyFinishedError")
    /\ [](call_in.function = "action_new_game" =>
             /\ game_state = "GUESSING"
             /\ guesses = <<>>
             /\ alphabet_states = [c \in ALPHABET |-> "NOT_GUESSED"]
             /\ ~input_disabled)
    /\ [][(call_in'.function = "guess_word" => game_state = "GUESSING")]_vars

\* the app right after a new-game action
C39_Witness ==
    /\ call_in.function = "action_new_game"
    /\ app_state = "running"
    /\ label = [kind |-> "New Game Started.", value |-> <<>>]
    /\ guesses = <<>>
    /\ ~input_disabled

====
